---- MODULE Spec2Model ----
(***************************************************************************)
(* Model of the per-sheet row pass of lambda_handler                       *)
(* (src/lambda_function.py): row cleaning, row classification and section  *)
(* assembly.  Text is a sequence of one-character strings so that strip,   *)
(* lower and replace are computed, not assumed.                            *)
(***************************************************************************)
EXTENDS Integers, Sequences, FiniteSets, TLC

(***************************************************************************)
(* Values.  Every Python value held in the result is one record shape:     *)
(*   tipo "str"  : txt is the text                                         *)
(*   tipo "num"  : num is the number                                       *)
(*   tipo "date" : num identifies the datetime                             *)
(*   tipo "none" : None                                                    *)
(*   tipo "list" : items is the list                                       *)
(*   tipo "dict" : d is the mapping (a function from text keys)            *)
(***************************************************************************)
EmptyDict == [k \in {} |-> 0]

S(t) == [tipo |-> "str", txt |-> t, num |-> 0, items |-> <<>>, d |-> EmptyDict]

N(n) == [tipo |-> "num", txt |-> <<>>, num |-> n, items |-> <<>>, d |-> EmptyDict]

Fecha(n) == [tipo |-> "date", txt |-> <<>>, num |-> n, items |-> <<>>, d |-> EmptyDict]

None == [tipo |-> "none", txt |-> <<>>, num |-> 0, items |-> <<>>, d |-> EmptyDict]

L(xs) == [tipo |-> "list", txt |-> <<>>, num |-> 0, items |-> xs, d |-> EmptyDict]

Dict(f) == [tipo |-> "dict", txt |-> <<>>, num |-> 0, items |-> <<>>, d |-> f]

IsStr(c) == c.tipo = "str"

IsNumber(c) == c.tipo = "num"

IsDict(c) == c.tipo = "dict"

IsList(c) == c.tipo = "list"

(* dict[k] = v *)
SetItem(f, k, v) == [x \in (DOMAIN f) \cup {k} |-> IF x = k THEN v ELSE f[x]]

(* dict.update(g) *)
Update(f, g) == [x \in (DOMAIN f) \cup (DOMAIN g) |-> IF x \in DOMAIN g THEN g[x] ELSE f[x]]

(***************************************************************************)
(* Text operations                                                         *)
(***************************************************************************)
IsSpace(c) == c \in {" ", "\t", "\n"}

RECURSIVE LStrip(_)
LStrip(s) == IF s # <<>> /\ IsSpace(Head(s)) THEN LStrip(Tail(s)) ELSE s

RECURSIVE RStrip(_)
RStrip(s) == IF s # <<>> /\ IsSpace(s[Len(s)]) THEN RStrip(SubSeq(s, 1, Len(s) - 1)) ELSE s

Strip(s) == RStrip(LStrip(s))

Upper == <<"A","B","C","D","E","F","G","H","I","J","K","L","M","N","O","P","Q","R","S","T","U","V","W","X","Y","Z">>

LowerAlpha == <<"a","b","c","d","e","f","g","h","i","j","k","l","m","n","o","p","q","r","s","t","u","v","w","x","y","z">>

LowerChar(c) == IF \E i \in 1..Len(Upper) : Upper[i] = c
                THEN LowerAlpha[CHOOSE i \in 1..Len(Upper) : Upper[i] = c]
                ELSE c

Lower(s) == [i \in 1..Len(s) |-> LowerChar(s[i])]

ReplaceSpaces(s) == [i \in 1..Len(s) |-> IF s[i] = " " THEN "_" ELSE s[i]]

EndsWith(s, suf) == Len(s) >= Len(suf) /\ SubSeq(s, Len(s) - Len(suf) + 1, Len(s)) = suf

Digit(n) == <<"0","1","2","3","4","5","6","7","8","9">>[n + 1]

RECURSIVE IntStr(_)
IntStr(n) == IF n < 10 THEN <<Digit(n)>> ELSE IntStr(n \div 10) \o <<Digit(n % 10)>>

(* str(cell) *)
Str(c) == CASE c.tipo = "str"  -> c.txt
            [] c.tipo = "num"  -> IntStr(c.num)
            [] c.tipo = "date" -> <<"2","0","2","4","-","0","1","-","0">> \o IntStr(c.num)
                                  \o <<" ","0","0",":","0","0",":","0","0">>
            [] OTHER           -> <<"N","o","n","e">>

(* str(x).strip().lower().replace(" ", "_") *)
Normalizar(c) == ReplaceSpaces(Lower(Strip(Str(c))))


(***************************************************************************)
(* Fixed tables of the parser                                              *)
(***************************************************************************)
SIN_SECCION == <<"s","i","n","_","s","e","c","c","i","o","n">>

VALORES_MISCELANEOS == <<"v","a","l","o","r","e","s","_","m","i","s","c","e","l","a","n","e","o","s">>

VALORES == <<"v","a","l","o","r","e","s">>

(* line 122: sections whose first all-text row is always a header *)
SeccionesDeTabla == { <<"e","r","r","o","r","_","d","e","_","r","e","l","a","c","i","ó","n","_","d","e","_","c","o","r","r","i","e","n","t","e","_","e","n","_","%","_","a","_","%","_","d","e","_","c","o","r","r","i","e","n","t","e","_","n","o","m","i","n","a","l">>,
                      <<"f","a","s","e","_","e","n","_","m","i","n","_","a","_","%","_","d","e","_","l","a","_","c","o","r","r","i","e","n","t","e","_","n","o","m","i","n","a","l">>,
                      <<"d","a","t","o","s","_","m","e","d","i","d","o","s">> }

(* line 157: texts that are never keys *)
ClavesNoValidas == { <<"o","k">>,
                     <<"s","i">>,
                     <<"n","o">>,
                     <<"d","e","s","a","c","t","i","v","a","d","o">>,
                     <<"p","r","o","t","e","c","c","i","ó","n">>,
                     <<"u","b","i","c","a","c","i","ó","n">>,
                     <<"c","o","l","o","m","b","i","a">>,
                     <<"g","3",".","2">> }

(* line 159: suffixes of keys that may have no value *)
SufijosDeEtiqueta == { <<"_","i","d">>, <<"_","n","a","m","e">>, <<"_","c","o","d","e">> }

MaxKeyLen == 50

(***************************************************************************)
(* Row cleaning, lines 82-86                                               *)
(***************************************************************************)
CeldaUtil(cell) == cell # None /\ ((IsStr(cell) /\ Strip(cell.txt) # <<>>) \/ ~IsStr(cell))

RECURSIVE LimpiarFila(_)
LimpiarFila(row) == IF row = <<>> THEN <<>>
                    ELSE IF CeldaUtil(Head(row)) THEN <<Head(row)>> \o LimpiarFila(Tail(row))
                    ELSE LimpiarFila(Tail(row))

RECURSIVE FilasCrudas(_)
FilasCrudas(rows) == IF rows = <<>> THEN <<>>
                     ELSE IF LimpiarFila(Head(rows)) # <<>>
                          THEN <<LimpiarFila(Head(rows))>> \o FilasCrudas(Tail(rows))
                          ELSE FilasCrudas(Tail(rows))


(***************************************************************************)
(* Log records, one per logging call of the row loop                       *)
(***************************************************************************)
LogEntry(ev, txt) == [ev |-> ev, txt |-> txt]

Truthy(sa) == sa.some /\ sa.key # <<>>

NoSection == [some |-> FALSE, key |-> <<>>]

Section(key) == [some |-> TRUE, key |-> key]

(***************************************************************************)
(* Key/value rows inside a section, lines 146-180                          *)
(***************************************************************************)
(* variant: the paired value, too, is matched against the non-key texts *)
ClaveNoValida_ValorEnLista(k, v) ==
    \/ IsNumber(k)
    \/ /\ IsStr(k)
       /\ \/ Len(Str(k)) > MaxKeyLen
          \/ Lower(Strip(Str(k))) \in ClavesNoValidas
          \/ (IsStr(v) /\ Lower(Strip(Str(v))) \in ClavesNoValidas)
          \/ Strip(Str(k)) = <<>>
          \/ /\ v = None
             /\ ~\E suf \in SufijosDeEtiqueta : EndsWith(Lower(Strip(Str(k))), suf)

(* lines 155-159: the key candidate is not a usable key *)
ClaveNoValida(k, v) ==
    \/ IsNumber(k)
    \/ /\ IsStr(k)
       /\ \/ Len(Str(k)) > MaxKeyLen
          \/ Lower(Strip(Str(k))) \in ClavesNoValidas
          \/ Strip(Str(k)) = <<>>
          \/ /\ v = None
             /\ ~\E suf \in SufijosDeEtiqueta : EndsWith(Lower(Strip(Str(k))), suf)

(* lines 162-165: [key, value] goes to valores_miscelaneos; extend() on a
   value that is not a list raises AttributeError *)
AgregarMiscelaneo(st, sec, k, v) ==
    LET cont == st.datos[sec]
        st1  == [st EXCEPT !.log = Append(@, LogEntry("clave_no_valida", Str(k)))]
    IN IF IsDict(cont)
       THEN IF VALORES_MISCELANEOS \in DOMAIN cont.d /\ ~IsList(cont.d[VALORES_MISCELANEOS])
            THEN [st1 EXCEPT !.fault = TRUE]
            ELSE LET prev == IF VALORES_MISCELANEOS \in DOMAIN cont.d
                             THEN cont.d[VALORES_MISCELANEOS].items ELSE <<>>
                 IN [st1 EXCEPT !.datos[sec] =
                        Dict(SetItem(cont.d, VALORES_MISCELANEOS, L(prev \o <<k, v>>)))]
       ELSE [st1 EXCEPT !.datos[sec] =
                L(Append(cont.items, Dict(SetItem(EmptyDict, VALORES_MISCELANEOS, L(<<k, v>>)))))]

(* lines 169-173: an accepted pair *)
AgregarPar(st, sec, k, v) ==
    LET cont == st.datos[sec]
        key  == Normalizar(k)
    IN IF IsDict(cont)
       THEN [st EXCEPT !.subdata = SetItem(@, key, v)]
       ELSE [st EXCEPT !.datos[sec] = L(Append(cont.items, Dict(SetItem(EmptyDict, key, v))))]

(* lines 149-176: walk the row two cells at a time from position j *)
RECURSIVE RecorrerPares(_, _, _, _)
RecorrerPares(st, sec, fila, j) ==
    IF j > Len(fila) \/ st.fault THEN st
    ELSE LET k == fila[j]
             v == IF j + 1 <= Len(fila) THEN fila[j + 1] ELSE None
         IN IF ClaveNoValida(k, v)
            THEN RecorrerPares(AgregarMiscelaneo(st, sec, k, v), sec, fila, j + 2)
            ELSE RecorrerPares(AgregarPar(st, sec, k, v), sec, fila, j + 2)

(* lines 148-180; st = [datos, log, fault] *)
ProcesarClaveValor(st, sec, fila) ==
    LET r == RecorrerPares([datos |-> st.datos, log |-> st.log, fault |-> st.fault,
                            subdata |-> EmptyDict], sec, fila, 1)
        d == IF ~r.fault /\ DOMAIN r.subdata # {} /\ IsDict(r.datos[sec])
             THEN [r.datos EXCEPT ![sec] = Dict(Update(r.datos[sec].d, r.subdata))]
             ELSE r.datos
    IN [datos |-> d, log |-> r.log, fault |-> r.fault]

(***************************************************************************)
(* Table rows, lines 133-144                                               *)
(***************************************************************************)
(* lines 133-138: later duplicates of a header name overwrite earlier ones *)
RowData(headers, fila) ==
    [h \in {headers[x] : x \in 1..Len(headers)} |->
        LET idx == CHOOSE x \in 1..Len(headers) :
                      /\ headers[x] = h
                      /\ \A y \in 1..Len(headers) : headers[y] = h => y <= x
        IN IF idx <= Len(fila) THEN fila[idx] ELSE None]

(* variant: the blank-record test is left out *)
TieneDatos_Siempre(row_data) == TRUE

(* line 140 *)
TieneDatos(row_data) ==
    \E h \in DOMAIN row_data : row_data[h] # None /\ Strip(Str(row_data[h])) # <<>>

(* variant: the record is assigned to the section instead of appended *)
ProcesarFilaTabla_Asigna(st, sec, headers, fila) ==
    LET row_data == RowData(headers, fila)
    IN IF ~IsList(st.datos[sec])
       THEN [st EXCEPT !.fault = TRUE]
       ELSE IF TieneDatos(row_data)
       THEN [st EXCEPT !.datos[sec] = Dict(row_data),
                       !.log = Append(@, LogEntry("fila_tabla", sec))]
       ELSE [st EXCEPT !.log = Append(@, LogEntry("fila_omitida", sec))]

(* lines 132-144 *)
ProcesarFilaTabla(st, sec, headers, fila) ==
    LET row_data == RowData(headers, fila)
    IN IF ~IsList(st.datos[sec])
       THEN [st EXCEPT !.fault = TRUE]
       ELSE IF TieneDatos(row_data)
       THEN [st EXCEPT !.datos[sec] = L(Append(@.items, Dict(row_data))),
                       !.log = Append(@, LogEntry("fila_tabla", sec))]
       ELSE [st EXCEPT !.log = Append(@, LogEntry("fila_omitida", sec))]

(* lines 131-180: a row inside the open section sec *)
ProcesarEnSeccion(st, sec, in_table, headers, fila) ==
    IF in_table /\ headers # <<>>
    THEN ProcesarFilaTabla(st, sec, headers, fila)
    ELSE ProcesarClaveValor(st, sec, fila)


(***************************************************************************)
(* Rows before any section, lines 183-210                                  *)
(***************************************************************************)
(* lines 190-202: r = [ok, temp]; stops at the first key that is not
   non-empty text *)
RECURSIVE ParesSinSeccion(_, _, _)
ParesSinSeccion(fila, j, r) ==
    IF j > Len(fila) THEN r
    ELSE LET k == fila[j]
             v == IF j + 1 <= Len(fila) THEN fila[j + 1] ELSE None
         IN IF IsStr(k) /\ Strip(k.txt) # <<>>
            THEN ParesSinSeccion(fila, j + 2,
                                 [ok |-> TRUE, temp |-> SetItem(r.temp, Normalizar(k), v)])
            ELSE [r EXCEPT !.ok = FALSE]

(* variant: the row is stored as it is, not wrapped as {valores: row} *)
SubdataSinSeccion_Crudo(fila) ==
    LET r == ParesSinSeccion(fila, 1, [ok |-> FALSE, temp |-> EmptyDict])
    IN IF Len(fila) % 2 = 0
       THEN IF r.ok /\ DOMAIN r.temp # {}
            THEN Dict(r.temp)
            ELSE L(fila)
       ELSE L(fila)

(* variant: the cell count is not tested *)
SubdataSinSeccion_SinParidad(fila) ==
    LET r == ParesSinSeccion(fila, 1, [ok |-> FALSE, temp |-> EmptyDict])
    IN IF r.ok /\ DOMAIN r.temp # {}
       THEN Dict(r.temp)
       ELSE Dict(SetItem(EmptyDict, VALORES, L(fila)))

(* lines 185-208 *)
SubdataSinSeccion(fila) ==
    LET r == ParesSinSeccion(fila, 1, [ok |-> FALSE, temp |-> EmptyDict])
    IN IF Len(fila) % 2 = 0
       THEN IF r.ok /\ DOMAIN r.temp # {}
            THEN Dict(r.temp)
            ELSE Dict(SetItem(EmptyDict, VALORES, L(fila)))
       ELSE Dict(SetItem(EmptyDict, VALORES, L(fila)))

(* variant: the bucket is assigned instead of appended to *)
AgregarSinSeccion_Reemplaza(datos, x) == SetItem(datos, SIN_SECCION, L(<<x>>))

(* datos_estructurados.setdefault("sin_seccion", []).append(x) *)
AgregarSinSeccion(datos, x) ==
    IF SIN_SECCION \in DOMAIN datos
    THEN [datos EXCEPT ![SIN_SECCION] = L(Append(@.items, x))]
    ELSE SetItem(datos, SIN_SECCION, L(<<x>>))

ProcesarSinSeccion(st, fila) ==
    IF SIN_SECCION \in DOMAIN st.datos /\ ~IsList(st.datos[SIN_SECCION])
    THEN [st EXCEPT !.fault = TRUE, !.log = Append(@, LogEntry("sin_seccion", <<>>))]
    ELSE [st EXCEPT !.datos = AgregarSinSeccion(@, SubdataSinSeccion(fila)),
                    !.log = Append(@, LogEntry("sin_seccion", <<>>))]

(***************************************************************************)
(* Header detection, lines 114-122                                         *)
(***************************************************************************)
(* lines 118-120 *)
SiguienteEsDato(next_fila) ==
    /\ next_fila # <<>>
    /\ \E x \in 1..Len(next_fila) :
          next_fila[x] # None /\ Strip(Str(next_fila[x])) # <<>>
    /\ ~ (/\ Len(next_fila) = 1
          /\ IsStr(next_fila[1])
          /\ ReplaceSpaces(Lower(Strip(next_fila[1].txt))) \notin {SIN_SECCION})

(* line 114 *)
CandidataCabecera(sa, filas, idx) ==
    /\ Truthy(sa)
    /\ Len(filas[idx]) > 1
    /\ \A x \in 1..Len(filas[idx]) : IsStr(filas[idx][x])
    /\ idx < Len(filas)

(* line 122 *)
TomaCabecera(sa, headers, filas, idx) ==
    \/ SiguienteEsDato(filas[idx + 1])
    \/ (sa.key \in SeccionesDeTabla /\ headers = <<>>)

EsCabecera(sa, headers, filas, idx) ==
    CandidataCabecera(sa, filas, idx) /\ TomaCabecera(sa, headers, filas, idx)

(* line 123 *)
Cabeceras(fila) == [x \in 1..Len(fila) |-> Normalizar(fila[x])]

(***************************************************************************)
(* New section, lines 97-110                                               *)
(***************************************************************************)
ClaveBase(fila) == Normalizar(fila[1])

(* lines 104-106 *)
ClaveSeccion(datos, key, sid) ==
    IF key \in DOMAIN datos THEN key \o <<"_">> \o IntStr(sid) ELSE key

EsCentinela(sa, fila) == Len(fila) = 1 /\ ClaveBase(fila) = SIN_SECCION /\ ~Truthy(sa)


(***************************************************************************)
(* Input: the rows of one sheet as iter_rows yields them                   *)
(***************************************************************************)
MaxRows == 4

T_B == <<"B">>

T_B1 == <<"B"," ","1">>

T_SinSeccion == <<"S","i","n"," ","S","e","c","c","i","o","n">>

T_Modelo == <<"M","o","d","e","l","o">>

T_G32 == <<"G","3",".","2">>

T_Corriente == <<"C","o","r","r","i","e","n","t","e">>

T_Tiempo == <<"T","i","e","m","p","o">>

T_ValoresMisc == <<"V","a","l","o","r","e","s"," ","M","i","s","c","e","l","a","n","e","o","s">>

T_X == <<"X">>

T_DatosMedidos == <<"D","a","t","o","s"," ","M","e","d","i","d","o","s">>

FilasDeHoja == { <<S(T_B)>>,
                 <<S(T_B1)>>,
                 <<S(T_SinSeccion)>>,
                 <<S(T_Modelo), S(T_G32)>>,
                 <<S(T_Corriente), S(T_Tiempo)>>,
                 <<N(10), N(5)>>,
                 <<None, None>>,
                 <<S(T_ValoresMisc), N(5)>>,
                 <<S(T_X), S(T_X), S(T_X)>>,
                 <<S(T_DatosMedidos)>> }

T_Nombre == <<"N","o","m","b","r","e">>

T_Juan == <<"J","u","a","n">>

T_Edad == <<"E","d","a","d">>

T_SerieID == <<"S","e","r","i","e","_","I","D">>

(* a second set of sheet rows: a numeric single cell, an odd row of texts,
   a temporal cell, a key that may have no value *)
FilasDeHojaB == { <<S(T_B)>>,
                  <<S(T_SinSeccion)>>,
                  <<N(10)>>,
                  <<S(T_Corriente), S(T_Tiempo)>>,
                  <<N(10), N(5)>>,
                  <<S(T_X), S(T_X), S(T_X)>>,
                  <<S(T_Nombre), S(T_Juan), S(T_Edad)>>,
                  <<S(T_ValoresMisc), N(5)>>,
                  <<Fecha(1), S(T_Nombre), S(T_SerieID)>> }

RECURSIVE SeqsUpTo(_, _)
SeqsUpTo(R, n) == IF n = 0 THEN {<<>>}
                  ELSE LET P == SeqsUpTo(R, n - 1)
                       IN P \cup {Append(p, r) : p \in {q \in P : Len(q) = n - 1}, r \in R}

(***************************************************************************)
(* The invocation: event, responses, serialisation of the result           *)
(***************************************************************************)
(* what event["body"] is: missing or None; a falsy value ("" or {}); a text
   that json.loads rejects; a text that decodes to a falsy value; a text
   that decodes to an object; a text that decodes to another truthy value;
   an object; another truthy value that is neither text nor object *)
CuerposDeEvento == {"ausente", "vacio", "texto_no_json", "texto_json_vacio",
                    "texto_json_objeto", "texto_json_otro", "objeto", "otro"}

(* what body["file_base64"] is: missing or None; a falsy value; a value
   that b64decode rejects; the encoding of bytes that load_workbook
   rejects; the encoding of a workbook *)
ArchivosDeEvento == {"ausente", "vacio", "no_base64", "no_xlsx", "xlsx"}

(* mapping: whether the event has a get method *)
Eventos == [mapping : BOOLEAN, body : CuerposDeEvento, file_base64 : ArchivosDeEvento]

EventoValido == [mapping |-> TRUE, body |-> "objeto", file_base64 |-> "xlsx"]

ERR_SIN_ARCHIVO == "No se proporcionó un archivo Base64 en el evento."

ERR_BODY == "Body vacío o inválido."

ERR_SIN_ARCHIVO_VALIDO == "No se proporcionó un archivo Base64 válido."

(* str(e) of the exception caught at line 236 *)
STR_E == "str(e)"

(* lines 27-60: "ok", "excepcion" when a statement raises, or the message
   of the 400 response *)
Validar(ev) ==
    IF ~ev.mapping THEN "excepcion"
    ELSE IF ev.body \in {"ausente", "vacio"} THEN ERR_SIN_ARCHIVO
    ELSE IF ev.body = "texto_no_json" THEN ERR_BODY
    ELSE IF ev.body = "texto_json_vacio" THEN ERR_BODY
    ELSE IF ev.body \in {"texto_json_otro", "otro"} THEN "excepcion"
    ELSE IF ev.file_base64 \in {"ausente", "vacio"} THEN ERR_SIN_ARCHIVO_VALIDO
    ELSE "ok"

(* nothing returned yet *)
SinRespuesta == [statusCode |-> 0, error |-> "", result |-> None,
                 headers |-> FALSE, isBase64Encoded |-> FALSE]

(* lines 30-33, 41-44, 49-52, 57-60 *)
Respuesta400(msg) == [statusCode |-> 400, error |-> msg, result |-> None,
                      headers |-> FALSE, isBase64Encoded |-> FALSE]

(* lines 226-234; result is what the Base64 body encodes *)
Respuesta200(result) == [statusCode |-> 200, error |-> "", result |-> result,
                         headers |-> TRUE, isBase64Encoded |-> TRUE]

(* variant: the failure response carries what had been assembled *)
Respuesta500_Parcial(e, parcial) ==
    [statusCode |-> 500, error |-> e, result |-> Dict(parcial),
     headers |-> TRUE, isBase64Encoded |-> FALSE]

(* lines 238-245; parcial, the result assembled so far, is not used *)
Respuesta500(e, parcial) ==
    [statusCode |-> 500, error |-> e, result |-> None,
     headers |-> TRUE, isBase64Encoded |-> FALSE]

(* datetime.isoformat() *)
IsoFormat(n) == <<"2","0","2","4","-","0","1","-","0">> \o IntStr(n)
                \o <<"T","0","0",":","0","0",":","0","0">>

(* lines 11-18, for the values json.dumps hands over *)
ConvertirFechas(obj) == S(IsoFormat(obj.num))

(* line 221: the value the JSON text denotes *)
RECURSIVE JsonDumps(_)
JsonDumps(v) ==
    CASE v.tipo = "date" -> ConvertirFechas(v)
      [] v.tipo = "list" -> L([n \in DOMAIN v.items |-> JsonDumps(v.items[n])])
      [] v.tipo = "dict" -> Dict([k \in DOMAIN v.d |-> JsonDumps(v.d[k])])
      [] OTHER           -> v

(* the name of the workbook's sheet *)
NombreDeHoja == <<"H","o","j","a","1">>

MaxRowsHandler == 3

(* rows of the workbook of an invocation *)
FilasDeHojaHandler == { <<S(T_B)>>,
                        <<S(T_SinSeccion)>>,
                        <<S(T_Corriente), S(T_Tiempo)>>,
                        <<N(10), N(5)>>,
                        <<S(T_ValoresMisc), N(5)>>,
                        <<Fecha(1), S(T_Nombre), S(T_SerieID)>> }

(***************************************************************************)
(* State                                                                   *)
(***************************************************************************)
VARIABLES pc, hoja, filas_crudas, i, datos_estructurados, seccion_actual,
          seccion_id, current_table_headers, is_in_table_section, log,
          evento, respuesta

vars == <<pc, hoja, filas_crudas, i, datos_estructurados, seccion_actual,
          seccion_id, current_table_headers, is_in_table_section, log,
          evento, respuesta>>

InitCon(R) ==
    /\ hoja \in SeqsUpTo(R, MaxRows)
    /\ pc = "leer"
    /\ filas_crudas = <<>>
    /\ i = 1
    /\ datos_estructurados = EmptyDict
    /\ seccion_actual = NoSection
    /\ seccion_id = 1
    /\ current_table_headers = <<>>
    /\ is_in_table_section = FALSE
    /\ log = <<>>
    /\ evento = EventoValido
    /\ respuesta = SinRespuesta

Init == InitCon(FilasDeHoja)

St == [datos |-> datos_estructurados, log |-> log, fault |-> FALSE]

(* the end of one iteration of the row loop: next row, or the except
   clause at line 236 when the row raised *)
Resultado(r) ==
    /\ datos_estructurados' = r.datos
    /\ log' = r.log
    /\ pc' = IF r.fault THEN "error" ELSE "filas"
    /\ i' = i + 1

EnFila == pc = "filas" /\ i <= Len(filas_crudas)

(* lines 80-92 *)
LeerFilas ==
    /\ pc = "leer"
    /\ filas_crudas' = FilasCrudas(hoja)
    /\ datos_estructurados' = EmptyDict
    /\ seccion_actual' = NoSection
    /\ seccion_id' = 1
    /\ current_table_headers' = <<>>
    /\ is_in_table_section' = FALSE
    /\ i' = 1
    /\ pc' = "filas"
    /\ UNCHANGED <<evento, respuesta, hoja, log>>

(* lines 96-102 *)
FilaCentinela ==
    /\ EnFila
    /\ EsCentinela(seccion_actual, filas_crudas[i])
    /\ datos_estructurados' = AgregarSinSeccion(datos_estructurados, L(filas_crudas[i]))
    /\ i' = i + 1
    /\ UNCHANGED <<evento, respuesta, pc, hoja, filas_crudas, seccion_actual, seccion_id,
                   current_table_headers, is_in_table_section, log>>

(* lines 96-111, then the same row goes on to line 131 *)
FilaNuevaSeccion ==
    /\ EnFila
    /\ Len(filas_crudas[i]) = 1
    /\ ~EsCentinela(seccion_actual, filas_crudas[i])
    /\ LET fila == filas_crudas[i]
           base == ClaveBase(fila)
           key  == ClaveSeccion(datos_estructurados, base, seccion_id)
           st   == [datos |-> SetItem(datos_estructurados, key, Dict(EmptyDict)),
                    log   |-> Append(log, LogEntry("seccion", key)),
                    fault |-> FALSE]
       IN /\ seccion_id' = IF base \in DOMAIN datos_estructurados
                           THEN seccion_id + 1 ELSE seccion_id
          /\ seccion_actual' = Section(key)
          /\ current_table_headers' = <<>>
          /\ is_in_table_section' = FALSE
          /\ Resultado(IF Truthy(Section(key))
                       THEN ProcesarEnSeccion(st, key, FALSE, <<>>, fila)
                       ELSE ProcesarSinSeccion(st, fila))
    /\ UNCHANGED <<evento, respuesta, hoja, filas_crudas>>

(* variant: the section content is not turned into a list *)
FilaCabecera_SinConvertir ==
    /\ EnFila
    /\ EsCabecera(seccion_actual, current_table_headers, filas_crudas, i)
    /\ current_table_headers' = Cabeceras(filas_crudas[i])
    /\ is_in_table_section' = TRUE
    /\ log' = Append(log, LogEntry("cabeceras", seccion_actual.key))
    /\ i' = i + 1
    /\ UNCHANGED <<evento, respuesta, pc, hoja, filas_crudas, seccion_actual, seccion_id, datos_estructurados>>

(* lines 114-128 *)
FilaCabecera ==
    /\ EnFila
    /\ EsCabecera(seccion_actual, current_table_headers, filas_crudas, i)
    /\ current_table_headers' = Cabeceras(filas_crudas[i])
    /\ is_in_table_section' = TRUE
    /\ datos_estructurados' =
          IF IsList(datos_estructurados[seccion_actual.key])
          THEN datos_estructurados
          ELSE [datos_estructurados EXCEPT ![seccion_actual.key] = L(<<>>)]
    /\ log' = Append(log, LogEntry("cabeceras", seccion_actual.key))
    /\ i' = i + 1
    /\ UNCHANGED <<evento, respuesta, pc, hoja, filas_crudas, seccion_actual, seccion_id>>

(* a row of more than one cell that is not taken as a header *)
FilaDeDatos ==
    /\ EnFila
    /\ Len(filas_crudas[i]) # 1
    /\ ~EsCabecera(seccion_actual, current_table_headers, filas_crudas, i)

(* lines 131-144 *)
FilaTabla ==
    /\ FilaDeDatos
    /\ Truthy(seccion_actual)
    /\ is_in_table_section /\ current_table_headers # <<>>
    /\ Resultado(ProcesarFilaTabla(St, seccion_actual.key, current_table_headers,
                                   filas_crudas[i]))
    /\ UNCHANGED <<evento, respuesta, hoja, filas_crudas, seccion_actual, seccion_id,
                   current_table_headers, is_in_table_section>>

(* lines 131, 146-180 *)
FilaClaveValor ==
    /\ FilaDeDatos
    /\ Truthy(seccion_actual)
    /\ ~(is_in_table_section /\ current_table_headers # <<>>)
    /\ Resultado(ProcesarClaveValor(St, seccion_actual.key, filas_crudas[i]))
    /\ UNCHANGED <<evento, respuesta, hoja, filas_crudas, seccion_actual, seccion_id,
                   current_table_headers, is_in_table_section>>

(* lines 183-210 *)
FilaSinSeccion ==
    /\ FilaDeDatos
    /\ ~Truthy(seccion_actual)
    /\ Resultado(ProcesarSinSeccion(St, filas_crudas[i]))
    /\ UNCHANGED <<evento, respuesta, hoja, filas_crudas, seccion_actual, seccion_id,
                   current_table_headers, is_in_table_section>>

(* line 212: the sheet's result is complete *)
FinHoja ==
    /\ pc = "filas"
    /\ i > Len(filas_crudas)
    /\ pc' = "fin"
    /\ UNCHANGED <<evento, respuesta, hoja, filas_crudas, i, datos_estructurados, seccion_actual,
                   seccion_id, current_table_headers, is_in_table_section, log>>

Next == \/ LeerFilas
        \/ FilaCentinela
        \/ FilaNuevaSeccion
        \/ FilaCabecera
        \/ FilaTabla
        \/ FilaClaveValor
        \/ FilaSinSeccion
        \/ FinHoja

Spec == Init /\ [][Next]_vars

InitB == InitCon(FilasDeHojaB)

SpecB == InitB /\ [][Next]_vars

(***************************************************************************)
(* The whole invocation                                                    *)
(***************************************************************************)
(* hoja is the sheet of the workbook that the event's file encodes *)
InitHandler ==
    /\ evento \in Eventos
    /\ hoja \in IF Validar(evento) = "ok" /\ evento.file_base64 = "xlsx"
                THEN SeqsUpTo(FilasDeHojaHandler, MaxRowsHandler)
                ELSE {<<>>}
    /\ pc = "validar"
    /\ filas_crudas = <<>>
    /\ i = 1
    /\ datos_estructurados = EmptyDict
    /\ seccion_actual = NoSection
    /\ seccion_id = 1
    /\ current_table_headers = <<>>
    /\ is_in_table_section = FALSE
    /\ log = <<>>
    /\ respuesta = SinRespuesta

(* lines 27-60 *)
ValidarEvento ==
    /\ pc = "validar"
    /\ LET r == Validar(evento)
       IN CASE r = "ok" ->
                 /\ pc' = "decodificar"
                 /\ UNCHANGED <<respuesta, log>>
            [] r = "excepcion" ->
                 /\ pc' = "error"
                 /\ UNCHANGED <<respuesta, log>>
            [] OTHER ->
                 /\ pc' = "devuelto"
                 /\ respuesta' = Respuesta400(r)
                 /\ log' = Append(log, LogEntry("error_400", <<>>))
    /\ UNCHANGED <<evento, hoja, filas_crudas, i, datos_estructurados,
                   seccion_actual, seccion_id, current_table_headers,
                   is_in_table_section>>

(* lines 63-78: the workbook has one sheet *)
DecodificarArchivo ==
    /\ pc = "decodificar"
    /\ pc' = IF evento.file_base64 = "xlsx" THEN "leer" ELSE "error"
    /\ UNCHANGED <<evento, respuesta, hoja, filas_crudas, i, datos_estructurados,
                   seccion_actual, seccion_id, current_table_headers,
                   is_in_table_section, log>>

(* lines 214-234 *)
Responder200 ==
    /\ pc = "fin"
    /\ respuesta' = Respuesta200(JsonDumps(
                       Dict([h \in {NombreDeHoja} |-> Dict(datos_estructurados)])))
    /\ log' = Append(log, LogEntry("archivo_eliminado", <<>>))
    /\ pc' = "devuelto"
    /\ UNCHANGED <<evento, hoja, filas_crudas, i, datos_estructurados,
                   seccion_actual, seccion_id, current_table_headers,
                   is_in_table_section>>

(* lines 236-245 *)
CapturarExcepcion ==
    /\ pc = "error"
    /\ respuesta' = Respuesta500(STR_E, datos_estructurados)
    /\ log' = Append(log, LogEntry("error_500", <<>>))
    /\ pc' = "devuelto"
    /\ UNCHANGED <<evento, hoja, filas_crudas, i, datos_estructurados,
                   seccion_actual, seccion_id, current_table_headers,
                   is_in_table_section>>

NextHandler == \/ ValidarEvento
               \/ DecodificarArchivo
               \/ LeerFilas
               \/ FilaCentinela
               \/ FilaNuevaSeccion
               \/ FilaCabecera
               \/ FilaTabla
               \/ FilaClaveValor
               \/ FilaSinSeccion
               \/ FinHoja
               \/ Responder200
               \/ CapturarExcepcion

SpecHandler == InitHandler /\ [][NextHandler]_vars


(***************************************************************************)
(* Properties                                                              *)
(***************************************************************************)

(* C1: once a header row has fixed the header list of a section, the list
   keeps its value for every later row of the section, i.e. every row that
   is not a single-cell (new-section) row leaves current_table_headers
   unchanged. *)
C1_HeadersNeverChange ==
    [][ (EnFila /\ current_table_headers # <<>> /\ Len(filas_crudas[i]) # 1)
        => current_table_headers' = current_table_headers ]_vars

(* C2: a single-cell row that opens a section contributes nothing else:
   right after the row is processed the content of the section it
   registered is the empty mapping. *)
C2_NewSectionEmpty ==
    [][ (EnFila /\ Len(filas_crudas[i]) = 1
           /\ ~(Normalizar(filas_crudas[i][1]) = SIN_SECCION /\ ~seccion_actual.some))
        => datos_estructurados'[seccion_actual'.key] = Dict(EmptyDict) ]_vars

(* C3: the row pass is total: no row of a well-typed sheet makes the
   processing raise. *)
C3_NoFault == pc # "error"

(* C4: when the sheet is finished, for any two section-opening rows whose
   text normalizes to the same key, the later one was registered under that
   key with "_<n>" appended, both keys are in the result, and neither key
   was registered by any other row (so each holds its own content).  The
   k-th "seccion" log record carries the key of the k-th opening row. *)
C4_DuplicateSections ==
    pc = "fin" =>
      LET primera == {x \in 1..Len(filas_crudas) :
                        Len(filas_crudas[x]) = 1
                        /\ Normalizar(filas_crudas[x][1]) # SIN_SECCION}
          abre(x) == /\ Len(filas_crudas[x]) = 1
                     /\ \E y \in primera : y <= x
          filas   == SelectSeq([x \in 1..Len(filas_crudas) |-> x], abre)
          claves  == SelectSeq(log, LAMBDA e : e.ev = "seccion")
          base(a) == Normalizar(filas_crudas[filas[a]][1])
      IN \A a, b \in 1..Len(filas) :
            (a < b /\ base(a) = base(b)) =>
              /\ \E n \in 1..Len(filas_crudas) :
                    claves[b].txt = base(b) \o <<"_">> \o IntStr(n)
              /\ claves[a].txt \in DOMAIN datos_estructurados
              /\ claves[b].txt \in DOMAIN datos_estructurados
              /\ \A c \in 1..Len(filas) :
                    /\ (c > a => claves[c].txt # claves[a].txt)
                    /\ (c > b => claves[c].txt # claves[b].txt)

(* C5: every row that opens a section registers it under a key that is not
   yet in the sheet's result, so no registered section and no sin_seccion
   bucket is replaced. *)
C5_KeysUnique ==
    [][ (EnFila /\ Len(filas_crudas[i]) = 1
           /\ ~(Normalizar(filas_crudas[i][1]) = SIN_SECCION /\ ~seccion_actual.some))
        => seccion_actual'.key \notin DOMAIN datos_estructurados ]_vars

(* C6: a single-cell row whose text normalizes to sin_seccion never
   registers a section and never changes the current section, whether or
   not a section is open. *)
C6_SentinelNeverOpened ==
    [][ (EnFila /\ Len(filas_crudas[i]) = 1
           /\ Normalizar(filas_crudas[i][1]) = SIN_SECCION)
        => /\ seccion_actual' = seccion_actual
           /\ SelectSeq(log', LAMBDA e : e.ev = "seccion")
                 = SelectSeq(log, LAMBDA e : e.ev = "seccion") ]_vars

(* C7: a single-cell row normalizing to sin_seccion, processed while no
   section is open, is appended as it is to the sin_seccion bucket; nothing
   else in the result changes, no section is registered, the current
   section stays none and headers, table flag and counter are unchanged. *)
C7_SentinelFrame ==
    [][ (pc = "filas" /\ i <= Len(filas_crudas)
           /\ Len(filas_crudas[i]) = 1
           /\ Normalizar(filas_crudas[i][1]) = SIN_SECCION
           /\ ~seccion_actual.some)
        => /\ DOMAIN datos_estructurados' = DOMAIN datos_estructurados \cup {SIN_SECCION}
           /\ IsList(datos_estructurados'[SIN_SECCION])
           /\ datos_estructurados'[SIN_SECCION].items =
                 (IF SIN_SECCION \in DOMAIN datos_estructurados
                  THEN datos_estructurados[SIN_SECCION].items ELSE <<>>)
                 \o <<L(filas_crudas[i])>>
           /\ \A k \in DOMAIN datos_estructurados \ {SIN_SECCION} :
                 datos_estructurados'[k] = datos_estructurados[k]
           /\ \A k \in DOMAIN datos_estructurados' : ~IsDict(datos_estructurados'[k])
           /\ seccion_actual' = NoSection
           /\ current_table_headers' = current_table_headers
           /\ is_in_table_section' = is_in_table_section
           /\ seccion_id' = seccion_id
           /\ log' = log
           /\ pc' = "filas" /\ i' = i + 1 ]_vars

(* two sentinel rows have been consumed into the bucket, no section open *)
C7_Witness ==
    /\ pc = "filas" /\ i = 3
    /\ ~seccion_actual.some
    /\ SIN_SECCION \in DOMAIN datos_estructurados
    /\ datos_estructurados[SIN_SECCION] =
          L(<<L(<<S(T_SinSeccion)>>), L(<<S(T_SinSeccion)>>)>>)

(* C8 as stated: the row ["Modelo", "G3.2"] in an open section with no
   headers fixed puts "Modelo" and "G3.2" at the end of valores_miscelaneos
   and leaves the mapping without the key modelo. *)
C8_ModeloRejected ==
    [][ (EnFila /\ filas_crudas[i] = <<S(T_Modelo), S(T_G32)>>
           /\ seccion_actual.some /\ current_table_headers = <<>>)
        => LET old  == datos_estructurados[seccion_actual.key]
               new  == datos_estructurados'[seccion_actual.key]
               misc == IF VALORES_MISCELANEOS \in DOMAIN old.d
                          /\ IsList(old.d[VALORES_MISCELANEOS])
                       THEN old.d[VALORES_MISCELANEOS].items ELSE <<>>
           IN /\ IsDict(new)
              /\ <<"m","o","d","e","l","o">> \notin DOMAIN new.d
              /\ VALORES_MISCELANEOS \in DOMAIN new.d
              /\ new.d[VALORES_MISCELANEOS] = L(misc \o <<S(T_Modelo), S(T_G32)>>) ]_vars

(* C8 amended: the row ["Modelo", "G3.2"] in an open section with no
   headers fixed, when it is not taken as a header (it is the last row, or
   the section is not a known table section and the next row is a single
   text cell other than the sentinel), is a key/value row whose key is
   accepted: the mapping gets modelo -> "G3.2" and nothing else in the
   result changes, valores_miscelaneos included. *)
C8_ModeloAccepted ==
    [][ (EnFila /\ filas_crudas[i] = <<S(T_Modelo), S(T_G32)>>
           /\ seccion_actual.some /\ current_table_headers = <<>>
           /\ \/ i = Len(filas_crudas)
              \/ /\ seccion_actual.key \notin SeccionesDeTabla
                 /\ Len(filas_crudas[i + 1]) = 1
                 /\ IsStr(filas_crudas[i + 1][1])
                 /\ Normalizar(filas_crudas[i + 1][1]) # SIN_SECCION)
        => /\ IsDict(datos_estructurados[seccion_actual.key])
           /\ datos_estructurados' =
                 [datos_estructurados EXCEPT ![seccion_actual.key] =
                     Dict([k \in DOMAIN @.d \cup {<<"m","o","d","e","l","o">>} |->
                             IF k = <<"m","o","d","e","l","o">> THEN S(T_G32) ELSE @.d[k]])]
           /\ pc' = "filas" ]_vars

(* the row has just been processed as a key/value row of section b *)
C8_Witness ==
    /\ pc = "filas" /\ i > 1 /\ i - 1 <= Len(filas_crudas)
    /\ filas_crudas[i - 1] = <<S(T_Modelo), S(T_G32)>>
    /\ seccion_actual = Section(<<"b">>)
    /\ ~is_in_table_section
    /\ IsDict(datos_estructurados[<<"b">>])
    /\ <<"m","o","d","e","l","o">> \in DOMAIN datos_estructurados[<<"b">>].d
    /\ datos_estructurados[<<"b">>].d[<<"m","o","d","e","l","o">>] = S(T_G32)

(* C9: while a section stays the current metadata section, the value under
   valores_miscelaneos is a flat list of even length that only grows: each
   row leaves the earlier entries in place. *)
C9_MiscOnlyGrows ==
    [][ (EnFila /\ Len(filas_crudas[i]) # 1 /\ seccion_actual.some
           /\ IsDict(datos_estructurados[seccion_actual.key])
           /\ IsDict(datos_estructurados'[seccion_actual.key])
           /\ VALORES_MISCELANEOS \in DOMAIN datos_estructurados[seccion_actual.key].d)
        => LET old == datos_estructurados[seccion_actual.key].d[VALORES_MISCELANEOS]
               new == datos_estructurados'[seccion_actual.key].d
           IN /\ VALORES_MISCELANEOS \in DOMAIN new
              /\ IsList(new[VALORES_MISCELANEOS])
              /\ Len(new[VALORES_MISCELANEOS].items) % 2 = 0
              /\ Len(new[VALORES_MISCELANEOS].items) >= Len(old.items)
              /\ SubSeq(new[VALORES_MISCELANEOS].items, 1, Len(old.items)) = old.items ]_vars

(* C10: in table mode with a non-empty header list, a row of more than one
   cell that is not taken as a header appends exactly one record (the
   header-aligned fields) to the current section when some field of the
   record is non-null and non-blank, and leaves the whole result unchanged
   otherwise; the sheet B / Corriente,Tiempo / 10,5 / null,null ends with
   exactly the record {corriente: 10, tiempo: 5}. *)
C10_TableRow ==
    /\ [][ (EnFila /\ seccion_actual.some /\ is_in_table_section
              /\ current_table_headers # <<>>
              /\ Len(filas_crudas[i]) # 1
              /\ ~EsCabecera(seccion_actual, current_table_headers, filas_crudas, i))
           => LET hs   == current_table_headers
                  fila == filas_crudas[i]
                  last(h) == CHOOSE x \in 1..Len(hs) :
                                hs[x] = h /\ \A y \in 1..Len(hs) : hs[y] = h => y <= x
                  rec  == [h \in {hs[x] : x \in 1..Len(hs)} |->
                             IF last(h) <= Len(fila) THEN fila[last(h)] ELSE None]
                  some == \E h \in DOMAIN rec :
                             /\ rec[h].tipo # "none"
                             /\ ~(rec[h].tipo = "str" /\ Strip(rec[h].txt) = <<>>)
              IN /\ IsList(datos_estructurados[seccion_actual.key])
                 /\ datos_estructurados' =
                       IF some
                       THEN [datos_estructurados EXCEPT ![seccion_actual.key] =
                                L(@.items \o <<Dict(rec)>>)]
                       ELSE datos_estructurados ]_vars
    /\ [](pc = "fin" /\ hoja = << <<S(T_B)>>, <<S(T_Corriente), S(T_Tiempo)>>,
                                  <<N(10), N(5)>>, <<None, None>> >>
          => datos_estructurados =
               (<<"b">> :> L(<< Dict(<<"c","o","r","r","i","e","n","t","e">> :> N(10) @@ <<"t","i","e","m","p","o">> :> N(5)) >>)))

(* a sheet in which one table row was appended and another was dropped *)
C10_Witness ==
    /\ pc = "fin"
    /\ \E x \in 1..Len(log) : log[x].ev = "fila_tabla"
    /\ \E x \in 1..Len(log) : log[x].ev = "fila_omitida"


(* C11: every record appended to a table section has exactly the header
   names as fields, and the field of header position x holds cell x of the
   row, or null when the row is shorter than the header list. *)
C11_RecordAligned ==
    [][ (EnFila /\ seccion_actual.some /\ is_in_table_section
           /\ current_table_headers # <<>>
           /\ Len(filas_crudas[i]) # 1
           /\ ~EsCabecera(seccion_actual, current_table_headers, filas_crudas, i)
           /\ Len(datos_estructurados'[seccion_actual.key].items)
                 = Len(datos_estructurados[seccion_actual.key].items) + 1)
        => LET hs   == current_table_headers
               fila == filas_crudas[i]
               recs == datos_estructurados'[seccion_actual.key].items
               rec  == recs[Len(recs)]
           IN /\ IsDict(rec)
              /\ DOMAIN rec.d = {hs[x] : x \in 1..Len(hs)}
              /\ \A x \in 1..Len(hs) :
                    rec.d[hs[x]] = IF x <= Len(fila) THEN fila[x] ELSE None ]_vars


(* C12: a row processed in metadata mode (section open, not in table mode,
   more than one cell, not taken as a header) stores every pair whose key
   passes the validity test in the section's mapping, under the normalized
   key and with the value as it is; a later pair of the row with the same
   normalized key overwrites an earlier one. *)
C12_AcceptedPairsStored ==
    [][ (EnFila /\ Len(filas_crudas[i]) # 1 /\ seccion_actual.some
           /\ ~is_in_table_section
           /\ ~EsCabecera(seccion_actual, current_table_headers, filas_crudas, i))
        => LET fila   == filas_crudas[i]
               new    == datos_estructurados'[seccion_actual.key]
               val(j) == IF j + 1 <= Len(fila) THEN fila[j + 1] ELSE None
               keys   == {j \in 1..Len(fila) : j % 2 = 1 /\ ~ClaveNoValida(fila[j], val(j))}
           IN /\ IsDict(new)
              /\ \A j \in keys :
                    /\ Normalizar(fila[j]) \in DOMAIN new.d
                    /\ \/ new.d[Normalizar(fila[j])] = val(j)
                       \/ \E j2 \in keys : /\ j2 > j
                                           /\ Normalizar(fila[j2]) = Normalizar(fila[j])
                                           /\ new.d[Normalizar(fila[j])] = val(j2) ]_vars


(* C13: while a section stays the current section, once its content is a
   sequence of records every later row that does not open a section leaves
   it a sequence, keeps the section current and leaves table mode on. *)
C13_TableStaysTable ==
    [][ (EnFila /\ seccion_actual.some
           /\ IsList(datos_estructurados[seccion_actual.key])
           /\ Len(filas_crudas[i]) # 1)
        => /\ seccion_actual' = seccion_actual
           /\ IsList(datos_estructurados'[seccion_actual.key])
           /\ is_in_table_section' ]_vars

(* a table section that has taken a data row after its header row *)
C13_Witness ==
    /\ pc = "filas" /\ i >= 4
    /\ seccion_actual.some
    /\ is_in_table_section
    /\ IsList(datos_estructurados[seccion_actual.key])
    /\ Len(datos_estructurados[seccion_actual.key].items) >= 1
    /\ log # <<>> /\ log[Len(log)].ev = "fila_tabla"


(* C14: with a section open that is not a known table section, a row of
   several cells, all text, that is not the last row is taken as a header
   exactly when the next row is non-empty and is not a single-cell row that
   opens a section (a single cell other than the sentinel); otherwise it is
   processed as data. *)
C14_HeaderLookahead ==
    [][ (EnFila /\ seccion_actual.some
           /\ seccion_actual.key \notin SeccionesDeTabla
           /\ Len(filas_crudas[i]) > 1
           /\ (\A x \in 1..Len(filas_crudas[i]) : IsStr(filas_crudas[i][x]))
           /\ i < Len(filas_crudas))
        => LET next   == filas_crudas[i + 1]
               abre   == Len(next) = 1 /\ Normalizar(next[1]) # SIN_SECCION
               tomada == /\ Len(log') = Len(log) + 1
                         /\ log'[Len(log')].ev = "cabeceras"
                         /\ is_in_table_section'
                         /\ current_table_headers' =
                               [x \in 1..Len(filas_crudas[i]) |-> Normalizar(filas_crudas[i][x])]
           IN tomada <=> (next # <<>> /\ ~abre) ]_vars


(* C15: in a row processed in metadata mode, a text key whose value is
   absent (the odd trailing cell) is rejected, [key, null] being appended
   to valores_miscelaneos, unless its trimmed lowercased text ends in _id,
   _name or _code, and then it is stored with value null; a numeric key is
   rejected whatever its value, [key, value] going to valores_miscelaneos. *)
C15_AbsentValue ==
    [][ (EnFila /\ Len(filas_crudas[i]) # 1 /\ seccion_actual.some
           /\ ~is_in_table_section
           /\ ~EsCabecera(seccion_actual, current_table_headers, filas_crudas, i))
        => LET fila   == filas_crudas[i]
               n      == Len(fila)
               new    == datos_estructurados'[seccion_actual.key]
               misc   == IF VALORES_MISCELANEOS \in DOMAIN new.d
                            /\ IsList(new.d[VALORES_MISCELANEOS])
                         THEN new.d[VALORES_MISCELANEOS].items ELSE <<>>
               en_misc(k, v) == \E p \in 1..Len(misc) :
                                   p % 2 = 1 /\ misc[p] = k /\ misc[p + 1] = v
               etiqueta(k) == \E suf \in SufijosDeEtiqueta :
                                 EndsWith(Lower(Strip(k.txt)), suf)
           IN /\ (n % 2 = 1 /\ IsStr(fila[n]) /\ ~etiqueta(fila[n]))
                 => (Len(misc) >= 2 /\ misc[Len(misc) - 1] = fila[n]
                                    /\ misc[Len(misc)] = None)
              /\ (n % 2 = 1 /\ IsStr(fila[n]) /\ etiqueta(fila[n]))
                 => (/\ Normalizar(fila[n]) \in DOMAIN new.d
                     /\ new.d[Normalizar(fila[n])] = None
                     /\ ~en_misc(fila[n], None))
              /\ \A j \in 1..n :
                    (j % 2 = 1 /\ IsNumber(fila[j]))
                    => en_misc(fila[j], IF j + 1 <= n THEN fila[j + 1] ELSE None) ]_vars


(* C16: while no section is open, a row of several cells appends exactly
   one entry to the sin_seccion bucket: the row's key/value mapping when
   the cell count is even and every key position (1, 3, 5, ...) is
   non-empty text, {valores: row} otherwise; no section is registered and
   nothing else in the parser state changes. *)
C16_NoSectionRow ==
    [][ (EnFila /\ ~seccion_actual.some /\ Len(filas_crudas[i]) > 1)
        => LET fila   == filas_crudas[i]
               pares  == {j \in 1..Len(fila) : j % 2 = 1}
               limpia == /\ Len(fila) % 2 = 0
                         /\ \A j \in pares : fila[j].tipo = "str" /\ Strip(fila[j].txt) # <<>>
               ultima(k) == CHOOSE j \in pares :
                               /\ Normalizar(fila[j]) = k
                               /\ \A j2 \in pares : Normalizar(fila[j2]) = k => j2 <= j
               mapa   == [k \in {Normalizar(fila[j]) : j \in pares} |-> fila[ultima(k) + 1]]
               entrada == IF limpia THEN Dict(mapa)
                          ELSE Dict(<<"v","a","l","o","r","e","s">> :> L(fila))
               antes  == IF SIN_SECCION \in DOMAIN datos_estructurados
                         THEN datos_estructurados[SIN_SECCION].items ELSE <<>>
           IN /\ DOMAIN datos_estructurados' = {SIN_SECCION}
              /\ datos_estructurados'[SIN_SECCION] = L(antes \o <<entrada>>)
              /\ seccion_actual' = seccion_actual
              /\ seccion_id' = seccion_id
              /\ current_table_headers' = current_table_headers
              /\ is_in_table_section' = is_in_table_section
              /\ pc' = "filas" /\ i' = i + 1 ]_vars

(* the bucket holds a key/value mapping and a {valores: row} entry *)
C16_Witness ==
    /\ pc = "filas" /\ i = 4
    /\ ~seccion_actual.some
    /\ SIN_SECCION \in DOMAIN datos_estructurados
    /\ LET b == datos_estructurados[SIN_SECCION].items
       IN /\ Len(b) = 3
          /\ \E x \in 1..3 : IsDict(b[x]) /\ DOMAIN b[x].d = {VALORES}
                             /\ Len(b[x].d[VALORES].items) % 2 = 0
          /\ \E x \in 1..3 : IsDict(b[x]) /\ DOMAIN b[x].d = {VALORES}
                             /\ Len(b[x].d[VALORES].items) % 2 = 1
          /\ \E x \in 1..3 : IsDict(b[x]) /\ VALORES \notin DOMAIN b[x].d


(* C17 as stated: every entry of the sin_seccion bucket is a mapping; the
   bucket never holds a bare row.  (The entry under sin_seccion is the
   bucket when no section was registered under that key.) *)
C17_AllMappings ==
    (/\ SIN_SECCION \in DOMAIN datos_estructurados
     /\ IsList(datos_estructurados[SIN_SECCION])
     /\ \A x \in 1..Len(log) : ~(log[x].ev = "seccion" /\ log[x].txt = SIN_SECCION))
    => \A x \in 1..Len(datos_estructurados[SIN_SECCION].items) :
          IsDict(datos_estructurados[SIN_SECCION].items[x])

(* C17 amended: every entry of the sin_seccion bucket is a mapping, except
   the entries made by single-cell sentinel rows (text normalizing to
   sin_seccion, met while no section is open): each of these is the bare
   one-cell row. *)
C17_MappingsOrSentinel ==
    (/\ SIN_SECCION \in DOMAIN datos_estructurados
     /\ \A x \in 1..Len(log) : ~(log[x].ev = "seccion" /\ log[x].txt = SIN_SECCION))
    => /\ IsList(datos_estructurados[SIN_SECCION])
       /\ \A x \in 1..Len(datos_estructurados[SIN_SECCION].items) :
             LET e == datos_estructurados[SIN_SECCION].items[x]
             IN \/ IsDict(e) /\ DOMAIN e.d # {}
                \/ /\ IsList(e)
                   /\ Len(e.items) = 1
                   /\ e.items[1].tipo = "str"
                   /\ ReplaceSpaces(Lower(Strip(e.items[1].txt))) = SIN_SECCION

(* the bucket holds a bare sentinel row and a mapping *)
C17_Witness ==
    /\ pc = "fin"
    /\ SIN_SECCION \in DOMAIN datos_estructurados
    /\ \A x \in 1..Len(log) : log[x].ev # "seccion"
    /\ \E x \in 1..Len(datos_estructurados[SIN_SECCION].items) :
          IsList(datos_estructurados[SIN_SECCION].items[x])
    /\ \E x \in 1..Len(datos_estructurados[SIN_SECCION].items) :
          IsDict(datos_estructurados[SIN_SECCION].items[x])


(* C19: whenever a section is open, table mode is on exactly when the
   header list is non-empty and exactly when the content of the current
   section is a sequence of records; so a row handled as key/value pairs
   always finds a mapping, and the branches that append one-entry records
   to a sequence are never taken. *)
C19_TableModeConsistent ==
    seccion_actual.some =>
       /\ seccion_actual.key \in DOMAIN datos_estructurados
       /\ is_in_table_section <=> (current_table_headers # <<>>)
       /\ is_in_table_section <=> IsList(datos_estructurados[seccion_actual.key])
       /\ ~is_in_table_section <=> IsDict(datos_estructurados[seccion_actual.key])

(* a metadata section opened after a table section *)
C19_Witness ==
    /\ pc = "filas"
    /\ seccion_actual.some
    /\ ~is_in_table_section /\ current_table_headers = <<>>
    /\ IsDict(datos_estructurados[seccion_actual.key])
    /\ \E k \in DOMAIN datos_estructurados :
          /\ k # SIN_SECCION
          /\ IsList(datos_estructurados[k])
          /\ Len(datos_estructurados[k].items) >= 1


(* C20: once a section is open, no step makes the current section none
   again, and no step creates or changes the entry stored under sin_seccion
   in the result: its content is fixed from the first section-opening row
   to the end of the sheet. *)
C20_BucketFixed ==
    [][ seccion_actual.some =>
          /\ seccion_actual'.some
          /\ (SIN_SECCION \in DOMAIN datos_estructurados')
                <=> (SIN_SECCION \in DOMAIN datos_estructurados)
          /\ SIN_SECCION \in DOMAIN datos_estructurados
                => datos_estructurados'[SIN_SECCION]
                       = datos_estructurados[SIN_SECCION] ]_vars


(* C18: lambda_handler never propagates an exception.  Whatever it
   returns has statusCode 200, 400 or 500, and nothing is returned twice; a
   fault raised while the event is read, the file decoded or the rows
   parsed leads to the except clause, whose answer is statusCode 500 with
   the error text and without any result; 200 is only answered by an
   invocation that finished its sheet; and every step brings the return
   nearer (a later stage, or fewer rows left), so the invocation cannot go
   on for ever without returning. *)
C18_AlwaysResponds ==
    [][ /\ pc' \in {"decodificar", "leer", "filas", "fin", "error", "devuelto"}
        /\ pc # "devuelto"
        /\ respuesta = SinRespuesta
        /\ (pc' = "devuelto") <=> (respuesta' # SinRespuesta)
        /\ pc' = "devuelto" => respuesta'.statusCode \in {200, 400, 500}
        /\ respuesta'.statusCode \in {400, 500}
              => respuesta'.result = None /\ respuesta'.error # ""
        /\ pc = "error" => /\ pc' = "devuelto"
                           /\ respuesta'.statusCode = 500
                           /\ respuesta'.error = STR_E
        /\ respuesta'.statusCode = 500 => pc = "error"
        /\ respuesta'.statusCode = 200 => pc = "fin"
        /\ pc' = "filas" => i' <= Len(filas_crudas') + 1
        /\ \/ pc' # pc /\ pc' # "validar" /\ pc # "devuelto"
                       /\ (pc \in {"fin", "error"} => pc' = "devuelto")
                       /\ (pc' = "leer" => pc = "decodificar")
                       /\ (pc' = "decodificar" => pc = "validar")
           \/ pc' = pc /\ pc = "filas" /\ filas_crudas' = filas_crudas /\ i' > i
      ]_vars

(* a row raised after part of the sheet had been assembled, and the
   invocation answered 500 *)
C18_Witness ==
    /\ pc = "devuelto"
    /\ respuesta.statusCode = 500
    /\ respuesta.result = None
    /\ filas_crudas # <<>>
    /\ i <= Len(filas_crudas) + 1
    /\ datos_estructurados # EmptyDict

====
